---------------------------- MODULE Spec2Model ----------------------------
(***************************************************************************)
(* dfsim: a 2D grid of processing elements with neighbour communication    *)
(* over several channels (src/dfsim/simulator.py).                         *)
(*                                                                         *)
(* The state is the Processor object: its dimensions, and for each PE and  *)
(* channel the three route slots, the handler list and the message queue,  *)
(* plus each PE's memory.  The operations are Processor.route,             *)
(* Processor.register_handler and Processor.simulate; simulate is unrolled *)
(* into one action per iteration of the channel loop of PE.run_channels,   *)
(* with the loop variables (loop_i, loop_j, loop_p) as its position.       *)
(***************************************************************************)
EXTENDS Integers, Sequences, FiniteSets, TLC

(***************************************************************************)
(* Bounds of the model.                                                    *)
(***************************************************************************)
MaxCalls == 1       \* route / register_handler calls the caller adds to a program
MaxSteps == 3       \* time steps simulated in one run (over all simulate calls)

\* The programs a run starts from: the grid the constructor is called with
\* and the setup code that runs before the first simulate call.
\*   "none"               a freshly constructed Processor
\*   "broadcast_and_add"  examples/broadcast_and_add.py on a column of `rows` PEs
\*   "relay"              the relay chain of three cells: cell0 sends 1 once,
\*                        cell1 adds one, cell2 stores what it receives
Programs ==
    { [rows |-> 1, cols |-> 2, channels |-> 1, setup |-> "none"],
      [rows |-> 1, cols |-> 1, channels |-> 2, setup |-> "none"],
      [rows |-> 2, cols |-> 1, channels |-> 1, setup |-> "broadcast_and_add"],
      [rows |-> 3, cols |-> 1, channels |-> 1, setup |-> "relay"],
      [rows |-> 1, cols |-> 3, channels |-> 1, setup |-> "relay"] }

\* The programs of the specification SpecRun:
\*   "memory"  examples/memory.py on a column of `rows` PEs: no routes, one
\*             multiply handler on each PE
\*   "cycle"   broadcast_and_add.py on two PEs, each with a skip route that
\*             sends what it pops back to the other PE
Scenarios ==
    { [rows |-> 2, cols |-> 1, channels |-> 1, setup |-> "memory"],
      [rows |-> 2, cols |-> 1, channels |-> 1, setup |-> "cycle"] }

\* The program of the specification SpecTwo: "cycle" on a Processor built
\* with two channels.
TwoChannels == [rows |-> 2, cols |-> 1, channels |-> 2, setup |-> "cycle"]

(***************************************************************************)
(* Direction (simulator.py:29-38).                                         *)
(***************************************************************************)
NORTH == "NORTH"
SOUTH == "SOUTH"
EAST == "EAST"
WEST == "WEST"
PROCESSOR == "PROCESSOR"
NOTHING == "NOTHING"
Direction == {NORTH, SOUTH, EAST, WEST, PROCESSOR, NOTHING}

\* Python's None, as a message value and as a handler's return value.
None == -1
\* The result of a lookup that raises IndexError.
IndexError == -2
\* No PE: the target of a send that appends nowhere.
NoPE == -3

VARIABLES
    rows, cols, channels,       \* Processor.rows, .cols, .channels
    inbound_routes,             \* PE.inbound_routes, per PE and channel
    outbound_routes,            \* PE.outbound_routes
    skip_routes,                \* PE.skip_routes: <<rcv, snd>>
    handlers,                   \* PE.handlers: sequence of handlers
    queues,                     \* PE.queues: sequence of messages
    memory,                     \* PE.memory
    pc,                         \* "idle", "simulate" (inside simulate) or "raised"
    time_steps,                 \* iterations of simulate's outer loop still to run
    loop_i, loop_j, loop_p,     \* simulate's i, j and run_channels' p
    err,                        \* the exception that ended the run, or None
    \* bookkeeping, read by no action's guard or effect on the program state
    step,                       \* time steps begun so far
    nmsg,                       \* messages created so far (ids 1..nmsg)
    ncalls,                     \* route / register_handler calls made by the caller
    appended, dequeued,         \* per queue: ids appended / popped, in order
    visits,                     \* per PE and channel: iterations of run_channels' loop begun
    last                        \* what the last action did

conf == <<rows, cols, channels>>
routes == <<inbound_routes, outbound_routes, skip_routes>>
loop == <<pc, time_steps, loop_i, loop_j, loop_p>>
vars == <<rows, cols, channels, inbound_routes, outbound_routes, skip_routes,
          handlers, queues, memory, pc, time_steps, loop_i, loop_j, loop_p,
          err, step, nmsg, ncalls, appended, dequeued, visits, last>>

(***************************************************************************)
(* Processor.__init__: pes[ind] is PE(ind // cols, ind % cols).            *)
(***************************************************************************)
PEs == 0 .. (rows * cols - 1)
Chans == 0 .. (channels - 1)
pe_i(ind) == ind \div cols
pe_j(ind) == ind % cols

\* __getitem__ without the tests i < 0 and j < 0: a negative index into the
\* Python list pes counts from its end.
GetItem_NoLowerCheck(i, j) ==
    IF i >= rows \/ j >= cols THEN IndexError
    ELSE LET k == i * cols + j IN
         IF k >= 0 THEN k
         ELSE IF k + rows * cols >= 0 THEN k + rows * cols  \* pes[-1] is the last PE
         ELSE IndexError

\* Processor.__getitem__ (simulator.py:162-169): the index into pes, or
\* IndexError.
GetItem(i, j) ==
    IF i < 0 \/ i >= rows \/ j < 0 \/ j >= cols THEN IndexError
    ELSE i * cols + j

\* route that tests only the receive direction: a send direction of
\* PROCESSOR goes into the outbound or the skip slot.
RouteSlots_NoInbound(R, k, channel, rcv, snd) ==
    IF rcv = PROCESSOR
    THEN [R EXCEPT !.outbound[k][channel] = snd]
    ELSE [R EXCEPT !.skip[k][channel] = <<rcv, snd>>]

\* route with the two tests in the other order.
RouteSlots_RcvFirst(R, k, channel, rcv, snd) ==
    IF rcv = PROCESSOR
    THEN [R EXCEPT !.outbound[k][channel] = snd]
    ELSE IF snd = PROCESSOR
    THEN [R EXCEPT !.inbound[k][channel] = rcv]
    ELSE [R EXCEPT !.skip[k][channel] = <<rcv, snd>>]

\* route that keeps a slot that is already set.
RouteSlots_KeepFirst(R, k, channel, rcv, snd) ==
    IF snd = PROCESSOR
    THEN IF R.inbound[k][channel] # NOTHING THEN R
         ELSE [R EXCEPT !.inbound[k][channel] = rcv]
    ELSE IF rcv = PROCESSOR
    THEN IF R.outbound[k][channel] # NOTHING THEN R
         ELSE [R EXCEPT !.outbound[k][channel] = snd]
    ELSE IF R.skip[k][channel] # <<NOTHING, NOTHING>> THEN R
         ELSE [R EXCEPT !.skip[k][channel] = <<rcv, snd>>]

(***************************************************************************)
(* Processor.route (simulator.py:213-218) on the three route tables R.     *)
(***************************************************************************)
RouteSlots(R, k, channel, rcv, snd) ==
    IF snd = PROCESSOR
    THEN [R EXCEPT !.inbound[k][channel] = rcv]
    ELSE IF rcv = PROCESSOR
    THEN [R EXCEPT !.outbound[k][channel] = snd]
    ELSE [R EXCEPT !.skip[k][channel] = <<rcv, snd>>]

RECURSIVE RouteAll(_, _)
RouteAll(R, calls) ==
    IF calls = <<>> THEN R
    ELSE RouteAll(RouteSlots(R, calls[1][1], calls[1][2], calls[1][3], calls[1][4]),
                  Tail(calls))

(***************************************************************************)
(* The setup code of a program on n cells in row-major order: the route    *)
(* calls <<cell, channel, rcv, snd>> (broadcast_and_add.py:52-57) and the  *)
(* handler registered on each cell's channel 0 (broadcast_and_add.py:      *)
(* 24-45).                                                                 *)
(***************************************************************************)
SetupRoutes(setup, n) ==
    IF setup \in {"none", "memory"} THEN <<>>
    ELSE IF setup = "cycle"
    THEN << <<0, 0, PROCESSOR, SOUTH>>, <<1, 0, NORTH, PROCESSOR>>,
            <<0, 0, SOUTH, SOUTH>>, <<1, 0, NORTH, NORTH>> >>
    ELSE <<<<0, 0, PROCESSOR, SOUTH>>>>
         \o [x \in 1 .. 2 * (n - 2) |->
               IF x % 2 = 1 THEN <<(x + 1) \div 2, 0, NORTH, PROCESSOR>>
               ELSE <<x \div 2, 0, PROCESSOR, SOUTH>>]
         \o <<<<n - 1, 0, NORTH, PROCESSOR>>>>

SetupHandler(setup, n, k) ==
    CASE setup = "none" -> <<>>
      [] setup = "memory" -> <<"multiply">>
      [] setup \in {"broadcast_and_add", "cycle"} ->
            IF k = 0 THEN <<"instigate">>
            ELSE IF k < n - 1 THEN <<"get_and_send">> ELSE <<"store">>
      [] setup = "relay" ->
            IF k = 0 THEN <<"send_once">>
            ELSE IF k < n - 1 THEN <<"get_and_send">> ELSE <<"keep">>

(***************************************************************************)
(* The memory each PE starts with: MyPE.val (broadcast_and_add.py:12-15),  *)
(* Multiplier.multiplied (memory.py:11-15), and the PE's elements x[i] and *)
(* y[i] of the global arrays of memory.py (lines 25-27), which only the    *)
(* PE's own handler reads and writes.                                      *)
(***************************************************************************)
a == 2
DefaultMemory(k) == [val |-> 0, multiplied |-> FALSE, x |-> k + 1, y |-> 10 * k]

\* The last action, when it was not a visit of a PE's channel.
NoElement == [val |-> None, id |-> 0, src |-> NoPE, at |-> 0]

NoVisit(what) ==
    [op |-> what, cell |-> NoPE, chan |-> 0, coords |-> <<>>, args |-> <<>>,
     raised |-> FALSE, popped |-> FALSE, element |-> NoElement, calls |-> <<>>,
     sends |-> <<>>, at |-> 0]

InitProgram(prog) ==
    /\ rows = prog.rows /\ cols = prog.cols /\ channels = prog.channels
    /\ LET n == prog.rows * prog.cols
           C == 0 .. (n - 1)
           Q == 0 .. (prog.channels - 1)
           R == RouteAll([inbound |-> [c \in C |-> [q \in Q |-> NOTHING]],
                          outbound |-> [c \in C |-> [q \in Q |-> NOTHING]],
                          skip |-> [c \in C |-> [q \in Q |-> <<NOTHING, NOTHING>>]]],
                         SetupRoutes(prog.setup, n))
       IN  /\ inbound_routes = R.inbound
           /\ outbound_routes = R.outbound
           /\ skip_routes = R.skip
           /\ handlers = [c \in C |-> [q \in Q |->
                             IF q = 0 THEN SetupHandler(prog.setup, n, c) ELSE <<>>]]
           /\ queues = [c \in C |-> [q \in Q |-> <<>>]]
           /\ memory = [c \in C |-> DefaultMemory(c)]
           /\ appended = [c \in C |-> [q \in Q |-> <<>>]]
           /\ dequeued = [c \in C |-> [q \in Q |-> <<>>]]
           /\ visits = [c \in C |-> [q \in Q |-> 0]]
    /\ pc = "idle"
    /\ time_steps = 0
    /\ loop_i = 0 /\ loop_j = 0 /\ loop_p = 0
    /\ err = None
    /\ step = 0 /\ nmsg = 0 /\ ncalls = 0
    /\ last = NoVisit("init")

Init == \E prog \in Programs : InitProgram(prog)

(***************************************************************************)
(* Processor.route (simulator.py:200-218).  self[proc_i, proc_j] raises    *)
(* IndexError for coordinates outside the grid; the uncaught exception     *)
(* ends the run.                                                           *)
(***************************************************************************)
route(proc_i, proc_j, channel, rcv, snd) ==
    /\ pc = "idle"
    /\ ncalls < MaxCalls
    /\ ncalls' = ncalls + 1
    /\ LET k == GetItem(proc_i, proc_j)
           R == RouteSlots([inbound |-> inbound_routes, outbound |-> outbound_routes,
                            skip |-> skip_routes], k, channel, rcv, snd)
       IN  IF k = IndexError
           THEN /\ pc' = "raised"
                /\ err' = IndexError
                /\ UNCHANGED routes
           ELSE /\ inbound_routes' = R.inbound
                /\ outbound_routes' = R.outbound
                /\ skip_routes' = R.skip
                /\ UNCHANGED <<pc, err>>
    /\ last' = [NoVisit("route") EXCEPT !.cell = GetItem(proc_i, proc_j),
                                        !.chan = channel,
                                        !.coords = <<proc_i, proc_j>>,
                                        !.args = IF GetItem(proc_i, proc_j) = IndexError
                                                 THEN <<>> ELSE <<rcv, snd>>,
                                        !.raised = GetItem(proc_i, proc_j) = IndexError]
    /\ UNCHANGED <<conf, handlers, queues, memory, time_steps, loop_i, loop_j,
                   loop_p, step, nmsg, appended, dequeued, visits>>

(***************************************************************************)
(* Processor.register_handler / PE.register_handler (simulator.py:79-83,   *)
(* 171-198): append the handler to the channel's list.                     *)
(***************************************************************************)
register_handler(proc_i, proc_j, channel, func) ==
    /\ pc = "idle"
    /\ ncalls < MaxCalls
    /\ ncalls' = ncalls + 1
    /\ LET k == GetItem(proc_i, proc_j) IN
       IF k = IndexError
       THEN /\ pc' = "raised"
            /\ err' = IndexError
            /\ UNCHANGED handlers
       ELSE /\ handlers' = [handlers EXCEPT ![k][channel] = Append(@, func)]
            /\ UNCHANGED <<pc, err>>
    /\ last' = [NoVisit("register_handler") EXCEPT
                    !.cell = GetItem(proc_i, proc_j),
                    !.chan = channel,
                    !.coords = <<proc_i, proc_j>>,
                    !.raised = GetItem(proc_i, proc_j) = IndexError]
    /\ UNCHANGED <<conf, routes, queues, memory, time_steps, loop_i, loop_j,
                   loop_p, step, nmsg, appended, dequeued, visits>>

(***************************************************************************)
(* Handlers (HandlerType, simulator.py:23-26): a handler maps the PE's     *)
(* memory and the message (or None) to the new memory and a returned       *)
(* message (or None).  instigate, get_and_send and store are the handlers  *)
(* of examples/broadcast_and_add.py; send_once and keep are the relay      *)
(* chain's first and last handler (send 1 once; store the message as is);  *)
(* multiply is the handler of examples/memory.py.                          *)
(***************************************************************************)
InstigateValue == 42

Handler(func, mem, message) ==
    CASE func = "instigate" ->
            IF mem.val = 0
            THEN [mem |-> [mem EXCEPT !.val = InstigateValue], ret |-> InstigateValue]
            ELSE [mem |-> mem, ret |-> None]
      [] func = "get_and_send" ->
            IF message # None
            THEN [mem |-> [mem EXCEPT !.val = message + 1], ret |-> message + 1]
            ELSE [mem |-> mem, ret |-> None]
      [] func = "store" ->
            IF message # None
            THEN [mem |-> [mem EXCEPT !.val = message + 1], ret |-> None]
            ELSE [mem |-> mem, ret |-> None]
      [] func = "send_once" ->
            IF mem.val = 0
            THEN [mem |-> [mem EXCEPT !.val = 1], ret |-> 1]
            ELSE [mem |-> mem, ret |-> None]
      [] func = "keep" ->
            IF message # None
            THEN [mem |-> [mem EXCEPT !.val = message], ret |-> None]
            ELSE [mem |-> mem, ret |-> None]
      [] func = "multiply" ->
            IF mem.multiplied
            THEN [mem |-> mem, ret |-> None]
            ELSE [mem |-> [mem EXCEPT !.y = @ + a * mem.x, !.multiplied = TRUE],
                  ret |-> None]

HandlerKinds == {"instigate", "get_and_send", "store", "send_once", "keep"}

(***************************************************************************)
(* PE.send (simulator.py:109-122).  H is the pair of the queues and the    *)
(* log of appends; the result says whether the lookup raised, the PE whose *)
(* queue was appended to (NoPE when the direction matches no branch) and   *)
(* the new H.                                                              *)
(***************************************************************************)
\* send with the two axes confused: NORTH and SOUTH move along the row.
SendTarget_AxesSwapped(self, direction) ==
    CASE direction = NORTH -> GetItem(pe_i(self), pe_j(self) - 1)
      [] direction = SOUTH -> GetItem(pe_i(self), pe_j(self) + 1)
      [] direction = EAST -> GetItem(pe_i(self) + 1, pe_j(self))
      [] direction = WEST -> GetItem(pe_i(self) - 1, pe_j(self))
      [] direction = PROCESSOR -> self
      [] OTHER -> NoPE

SendTarget(self, direction) ==
    CASE direction = NORTH -> GetItem(pe_i(self) - 1, pe_j(self))
      [] direction = SOUTH -> GetItem(pe_i(self) + 1, pe_j(self))
      [] direction = EAST -> GetItem(pe_i(self), pe_j(self) + 1)
      [] direction = WEST -> GetItem(pe_i(self), pe_j(self) - 1)
      [] direction = PROCESSOR -> self
      [] OTHER -> NoPE

\* send that, when the neighbour is outside the grid, raises and leaves the
\* message at the head of the sender's own queue.
send_KeptOnError(H, self, element, direction, channel) ==
    LET to == SendTarget(self, direction) IN
    IF to = IndexError
    THEN [raised |-> TRUE, to |-> to,
          H |-> [H EXCEPT !.queues[self][channel] =
                     << [val |-> element.val, id |-> element.id,
                         src |-> self, at |-> step] >> \o @]]
    ELSE IF to = NoPE THEN [raised |-> FALSE, to |-> to, H |-> H]
    ELSE [raised |-> FALSE, to |-> to,
          H |-> [queues |-> [H.queues EXCEPT ![to][channel] =
                                 Append(@, [val |-> element.val, id |-> element.id,
                                            src |-> self, at |-> step])],
                 appended |-> [H.appended EXCEPT ![to][channel] =
                                 Append(@, element.id)]]]

\* send that puts the message at the head of the queue.
send_AtHead(H, self, element, direction, channel) ==
    LET to == SendTarget(self, direction) IN
    IF to = IndexError THEN [raised |-> TRUE, to |-> to, H |-> H]
    ELSE IF to = NoPE THEN [raised |-> FALSE, to |-> to, H |-> H]
    ELSE [raised |-> FALSE, to |-> to,
          H |-> [queues |-> [H.queues EXCEPT ![to][channel] =
                                 << [val |-> element.val, id |-> element.id,
                                     src |-> self, at |-> step] >> \o @],
                 appended |-> [H.appended EXCEPT ![to][channel] =
                                 Append(@, element.id)]]]

\* send that drops the message when the neighbour is outside the grid.
send_Dropped(H, self, element, direction, channel) ==
    LET to == SendTarget(self, direction) IN
    IF to = IndexError \/ to = NoPE THEN [raised |-> FALSE, to |-> to, H |-> H]
    ELSE [raised |-> FALSE, to |-> to,
          H |-> [queues |-> [H.queues EXCEPT ![to][channel] =
                                 Append(@, [val |-> element.val, id |-> element.id,
                                            src |-> self, at |-> step])],
                 appended |-> [H.appended EXCEPT ![to][channel] =
                                 Append(@, element.id)]]]

send(H, self, element, direction, channel) ==
    LET to == SendTarget(self, direction) IN
    IF to = IndexError THEN [raised |-> TRUE, to |-> to, H |-> H]
    ELSE IF to = NoPE THEN [raised |-> FALSE, to |-> to, H |-> H]
    ELSE [raised |-> FALSE, to |-> to,
          H |-> [queues |-> [H.queues EXCEPT ![to][channel] =
                                 Append(@, [val |-> element.val, id |-> element.id,
                                            src |-> self, at |-> step])],
                 appended |-> [H.appended EXCEPT ![to][channel] =
                                 Append(@, element.id)]]]

(***************************************************************************)
(* The handler loop of PE.run_channels (simulator.py:99-102): every        *)
(* handler runs on the memory the previous one left; tosend is overwritten *)
(* by each handler's return value.                                         *)
(***************************************************************************)
\* The handler loop keeping the first message returned.
RECURSIVE RunHandlers_KeepFirst(_, _, _, _, _)
RunHandlers_KeepFirst(hs, mem, message, tosend, calls) ==
    IF hs = <<>> THEN [mem |-> mem, tosend |-> tosend, calls |-> calls]
    ELSE LET r == Handler(Head(hs), mem, message) IN
         RunHandlers_KeepFirst(Tail(hs), r.mem, message,
                               IF tosend # None THEN tosend ELSE r.ret,
                               Append(calls, [func |-> Head(hs), arg |-> message,
                                              ret |-> r.ret, mem |-> r.mem]))

\* The handler loop run only when a message was popped.
RECURSIVE RunHandlers_IfMessage(_, _, _, _, _)
RunHandlers_IfMessage(hs, mem, message, tosend, calls) ==
    IF hs = <<>> \/ message = None
    THEN [mem |-> mem, tosend |-> tosend, calls |-> calls]
    ELSE LET r == Handler(Head(hs), mem, message) IN
         RunHandlers_IfMessage(Tail(hs), r.mem, message, r.ret,
                               Append(calls, [func |-> Head(hs), arg |-> message,
                                              ret |-> r.ret, mem |-> r.mem]))

RECURSIVE RunHandlers(_, _, _, _, _)
RunHandlers(hs, mem, message, tosend, calls) ==
    IF hs = <<>> THEN [mem |-> mem, tosend |-> tosend, calls |-> calls]
    ELSE LET r == Handler(Head(hs), mem, message) IN
         RunHandlers(Tail(hs), r.mem, message, r.ret,
                     Append(calls, [func |-> Head(hs), arg |-> message,
                                    ret |-> r.ret, mem |-> r.mem]))

\* simulate that begins every call with empty queues.
simulate_EmptyQueues(n) ==
    /\ pc = "idle"
    /\ step + n <= MaxSteps
    /\ IF n = 0
       THEN UNCHANGED <<loop, step>>
       ELSE /\ pc' = "simulate"
            /\ time_steps' = n
            /\ loop_i' = 0 /\ loop_j' = 0 /\ loop_p' = 0
            /\ step' = step + 1
    /\ queues' = [c \in PEs |-> [q \in Chans |-> <<>>]]
    /\ last' = [NoVisit("simulate") EXCEPT !.args = <<n>>]
    /\ UNCHANGED <<conf, routes, handlers, memory, err, nmsg, ncalls,
                   appended, dequeued, visits>>

\* simulate whose outer loop runs once more than asked.
simulate_OneMore(n) ==
    /\ pc = "idle"
    /\ step + n <= MaxSteps
    /\ pc' = "simulate"
    /\ time_steps' = n + 1
    /\ loop_i' = 0 /\ loop_j' = 0 /\ loop_p' = 0
    /\ step' = step + 1
    /\ last' = [NoVisit("simulate") EXCEPT !.args = <<n>>]
    /\ UNCHANGED <<conf, routes, handlers, queues, memory, err, nmsg, ncalls,
                   appended, dequeued, visits>>

(***************************************************************************)
(* Processor.simulate (simulator.py:220-234): the call enters the loops;   *)
(* simulate(0) returns at once.                                            *)
(***************************************************************************)
simulate(n) ==
    /\ pc = "idle"
    /\ step + n <= MaxSteps
    /\ IF n = 0
       THEN UNCHANGED <<loop, step>>
       ELSE /\ pc' = "simulate"
            /\ time_steps' = n
            /\ loop_i' = 0 /\ loop_j' = 0 /\ loop_p' = 0
            /\ step' = step + 1
    /\ last' = [NoVisit("simulate") EXCEPT !.args = <<n>>]
    /\ UNCHANGED <<conf, routes, handlers, queues, memory, err, nmsg, ncalls,
                   appended, dequeued, visits>>

(***************************************************************************)
(* One iteration of the loop over p in PE.run_channels (simulator.py:      *)
(* 89-107) for the PE self.  The result: whether a send raised, H (queues  *)
(* and append log), the PE's memory, and what happened on the way.         *)
(***************************************************************************)
\* The message created first is taken, wherever it is in the queue.
Dequeue_LowestId(q) ==
    LET k == CHOOSE k \in 1 .. Len(q) :
                 \A m \in 1 .. Len(q) :
                     q[k].id < q[m].id \/ (q[k].id = q[m].id /\ k <= m)
    IN  [element |-> q[k],
         rest |-> SubSeq(q, 1, k - 1) \o SubSeq(q, k + 1, Len(q))]

\* queues[p][0]: the oldest message is read and stays in the queue.
Dequeue_Peek(q) == [element |-> Head(q), rest |-> q]

\* queues[p].pop(): the newest message is taken.
Dequeue_Last(q) == [element |-> q[Len(q)], rest |-> SubSeq(q, 1, Len(q) - 1)]

\* queues[p].pop(0) (simulator.py:93): the oldest message and the rest.
Dequeue(q) == [element |-> Head(q), rest |-> Tail(q)]

\* The skip-route send made only where no outbound route is set.
SkipTaken_UnlessOutbound(self, chan) ==
    skip_routes[self][chan][1] # NOTHING /\ outbound_routes[self][chan] = NOTHING

\* The test before the skip-route send (simulator.py:96).
SkipTaken(self, chan) == skip_routes[self][chan][1] # NOTHING

\* The test before the outbound send (simulator.py:105-106).
OutboundTaken(self, chan, tosend) ==
    tosend # None /\ outbound_routes[self][chan] # NOTHING

\* A message is taken only on a channel whose inbound route is set.
HasMessage_IfInbound(S, self, chan) ==
    S.queues[self][chan] # <<>> /\ inbound_routes[self][chan] # NOTHING

\* The test of line 92: the channel's queue holds a message.
HasMessage(S, self, chan) == S.queues[self][chan] # <<>>

\* S is the part of the state that a visit reads and writes: the queues,
\* the log of appends, the memories and the count of messages created.
\* The visit with the handlers and the outbound send before the
\* skip-route send.
VisitOn_OutboundFirst(S, self, chan) ==
    LET q == S.queues[self][chan]
        popped == HasMessage(S, self, chan)
        element == IF popped THEN Dequeue(q).element ELSE NoElement
        H0 == [queues |-> IF popped
                          THEN [S.queues EXCEPT ![self][chan] = Dequeue(q).rest]
                          ELSE S.queues,
               appended |-> S.appended]
        r == RunHandlers(handlers[self][chan], S.memory[self], element.val, None,
                         <<>>)
        out == OutboundTaken(self, chan, r.tosend)
        tosend == [val |-> r.tosend, id |-> S.nmsg + 1]
        s2 == IF out THEN send(H0, self, tosend, outbound_routes[self][chan], chan)
              ELSE [raised |-> FALSE, to |-> NoPE, H |-> H0]
        sends2 == IF out
                  THEN << [kind |-> "outbound", dir |-> outbound_routes[self][chan],
                           val |-> tosend.val, id |-> tosend.id, to |-> s2.to] >>
                  ELSE << >>
        skip == popped /\ SkipTaken(self, chan) /\ ~ s2.raised
        s1 == IF skip THEN send(s2.H, self, element, skip_routes[self][chan][2], chan)
              ELSE [raised |-> FALSE, to |-> NoPE, H |-> s2.H]
        sends1 == IF skip
                  THEN Append(sends2, [kind |-> "skip",
                                       dir |-> skip_routes[self][chan][2],
                                       val |-> element.val, id |-> element.id,
                                       to |-> s1.to])
                  ELSE sends2
    IN  [raised |-> s2.raised \/ s1.raised, H |-> s1.H, mem |-> r.mem,
         popped |-> popped, element |-> element, calls |-> r.calls,
         sends |-> sends1, created |-> IF r.tosend # None THEN 1 ELSE 0]

VisitOn(S, self, chan) ==
    LET q == S.queues[self][chan]
        popped == HasMessage(S, self, chan)
        element == IF popped THEN Dequeue(q).element ELSE NoElement
        H0 == [queues |-> IF popped
                          THEN [S.queues EXCEPT ![self][chan] = Dequeue(q).rest]
                          ELSE S.queues,
               appended |-> S.appended]
        skip == popped /\ SkipTaken(self, chan)
        s1 == IF skip THEN send(H0, self, element, skip_routes[self][chan][2], chan)
              ELSE [raised |-> FALSE, to |-> NoPE, H |-> H0]
        sends1 == IF skip
                  THEN << [kind |-> "skip", dir |-> skip_routes[self][chan][2],
                           val |-> element.val, id |-> element.id, to |-> s1.to] >>
                  ELSE << >>
        r == RunHandlers(handlers[self][chan], S.memory[self], element.val, None,
                         <<>>)
        out == OutboundTaken(self, chan, r.tosend)
        tosend == [val |-> r.tosend, id |-> S.nmsg + 1]
        s2 == IF out THEN send(s1.H, self, tosend, outbound_routes[self][chan], chan)
              ELSE [raised |-> FALSE, to |-> NoPE, H |-> s1.H]
        sends2 == IF out
                  THEN Append(sends1, [kind |-> "outbound",
                                       dir |-> outbound_routes[self][chan],
                                       val |-> tosend.val, id |-> tosend.id,
                                       to |-> s2.to])
                  ELSE sends1
    IN  IF s1.raised
        THEN [raised |-> TRUE, H |-> s1.H, mem |-> S.memory[self], popped |-> popped,
              element |-> element, calls |-> <<>>, sends |-> sends1, created |-> 0]
        ELSE [raised |-> s2.raised, H |-> s2.H, mem |-> r.mem, popped |-> popped,
              element |-> element, calls |-> r.calls, sends |-> sends2,
              created |-> IF r.tosend # None THEN 1 ELSE 0]

\* The visit in the current state.
SimState ==
    [queues |-> queues, appended |-> appended, memory |-> memory, nmsg |-> nmsg,
     raised |-> pc = "raised"]

Visit(self, chan) == VisitOn(SimState, self, chan)

(***************************************************************************)
(* Processor.simulate as a function of the state (simulator.py:230-234     *)
(* around run_channels' loop, line 89): the state after the time steps,    *)
(* PEs and channels from position (i, j, p) on, with t time steps to go.   *)
(* An IndexError ends the loops, and the run.                              *)
(***************************************************************************)
\* One iteration of run_channels' loop for self[i, j] and channel p.
OneVisit(S, i, j, p) ==
    LET self == GetItem(i, j)
        v == VisitOn(S, self, p)
    IN  [queues |-> v.H.queues, appended |-> v.H.appended,
         memory |-> [S.memory EXCEPT ![self] = v.mem],
         nmsg |-> S.nmsg + v.created, raised |-> v.raised]

\* The next iteration of the loops: <<t, i, j, p>>.
Advance(t, i, j, p) ==
    IF p + 1 < channels THEN <<t, i, j, p + 1>>
    ELSE IF j + 1 < cols THEN <<t, i, j + 1, 0>>
    ELSE IF i + 1 < rows THEN <<t, i + 1, 0, 0>>
    ELSE <<t - 1, 0, 0, 0>>

RECURSIVE SimulateFrom(_, _, _, _, _)
SimulateFrom(S, t, i, j, p) ==
    IF t = 0 \/ S.raised THEN S
    ELSE LET S1 == OneVisit(S, i, j, p)
             to == Advance(t, i, j, p)
         IN  SimulateFrom(S1, to[1], to[2], to[3], to[4])

SimulateFn(S, n) == SimulateFrom(S, n, 0, 0, 0)

(***************************************************************************)
(* simulate's loops (simulator.py:230-234) around run_channels' loop       *)
(* (simulator.py:89): visit channel loop_p of self[loop_i, loop_j], then   *)
(* advance p, j, i and the step count.  An IndexError leaves the loops.    *)
(***************************************************************************)
run_channels ==
    /\ pc = "simulate"
    /\ LET self == GetItem(loop_i, loop_j)
           v == Visit(self, loop_p)
       IN  /\ queues' = v.H.queues
           /\ appended' = v.H.appended
           /\ dequeued' = IF v.popped
                          THEN [dequeued EXCEPT ![self][loop_p] = Append(@, v.element.id)]
                          ELSE dequeued
           /\ visits' = [visits EXCEPT ![self][loop_p] = @ + 1]
           /\ memory' = [memory EXCEPT ![self] = v.mem]
           /\ nmsg' = nmsg + v.created
           /\ last' = [op |-> "run_channels", cell |-> self, chan |-> loop_p,
                       coords |-> <<loop_i, loop_j>>, args |-> <<>>,
                       raised |-> v.raised, popped |-> v.popped,
                       element |-> v.element, calls |-> v.calls,
                       sends |-> v.sends, at |-> step]
           /\ IF v.raised
              THEN /\ pc' = "raised"
                   /\ err' = IndexError
                   /\ UNCHANGED <<time_steps, loop_i, loop_j, loop_p, step>>
              ELSE /\ err' = err
                   /\ IF loop_p + 1 < channels
                      THEN /\ loop_p' = loop_p + 1
                           /\ UNCHANGED <<pc, time_steps, loop_i, loop_j, step>>
                      ELSE IF loop_j + 1 < cols
                      THEN /\ loop_p' = 0 /\ loop_j' = loop_j + 1
                           /\ UNCHANGED <<pc, time_steps, loop_i, step>>
                      ELSE IF loop_i + 1 < rows
                      THEN /\ loop_p' = 0 /\ loop_j' = 0 /\ loop_i' = loop_i + 1
                           /\ UNCHANGED <<pc, time_steps, step>>
                      ELSE /\ loop_p' = 0 /\ loop_j' = 0 /\ loop_i' = 0
                           /\ time_steps' = time_steps - 1
                           /\ pc' = IF time_steps = 1 THEN "idle" ELSE "simulate"
                           /\ step' = IF time_steps = 1 THEN step ELSE step + 1
    /\ UNCHANGED <<conf, routes, handlers, ncalls>>

(***************************************************************************)
(* The caller: between simulate calls, any route or register_handler call  *)
(* with coordinates inside the grid or one off one of its four edges, and  *)
(* any simulate call.  The send direction is any Direction; the receive    *)
(* direction, which the code only compares with PROCESSOR and NOTHING, is  *)
(* one of those two or one of two compass directions.                      *)
(***************************************************************************)
RcvInputs == {NORTH, WEST, PROCESSOR, NOTHING}

CallerCoords ==
    ((0 .. rows - 1) \X (0 .. cols - 1))
    \cup {<<-1, 0>>, <<rows, 0>>, <<0, -1>>, <<0, cols>>}

Route ==
    \E at \in CallerCoords, channel \in Chans, rcv \in RcvInputs, snd \in Direction :
        route(at[1], at[2], channel, rcv, snd)

RegisterHandler ==
    \E at \in CallerCoords, channel \in Chans, func \in HandlerKinds :
        register_handler(at[1], at[2], channel, func)

Simulate == \E n \in 0 .. MaxSteps : simulate(n)

Next == Route \/ RegisterHandler \/ Simulate \/ run_channels

Spec == Init /\ [][Next]_vars

\* The same operations on the programs of Scenarios; inside simulate the
\* loops keep running (the call is synchronous), which is the fairness
\* of FairSpecRun.
InitRun == \E prog \in Scenarios : InitProgram(prog)
SpecRun == InitRun /\ [][Next]_vars

InitTwo == InitProgram(TwoChannels)
SpecTwo == InitTwo /\ [][Next]_vars
FairSpecTwo == SpecTwo /\ WF_vars(run_channels)

(***************************************************************************)
(* Properties.  `last` describes the action that led to the current state: *)
(* for a visit (op = "run_channels") the PE and channel, the message       *)
(* popped, the handler calls and the sends made, in order.                 *)
(***************************************************************************)
IsVisit == last.op = "run_channels"
Compass == {NORTH, SOUTH, EAST, WEST}
InGrid(i, j) == 0 <= i /\ i < rows /\ 0 <= j /\ j < cols
QueueOf(c, q) == queues[c][q]
OutboundSends == SelectSeq(last.sends, LAMBDA x : x.kind = "outbound")
\* The visit ended in the skip-route send, before any handler ran.
SkipRaised ==
    last.raised /\ last.sends # <<>> /\ last.sends[Len(last.sends)].kind = "skip"

\* C1 (as amended): within one time step, when a PE's channel is visited,
\* a message that an earlier PE (row-major) sent to it in this step is
\* popped and handled in this visit unless an older message is ahead of it
\* in the queue (then that older message is popped and the new one waits);
\* and a message popped from a PE that comes later in row-major order was
\* sent in an earlier step.
C1_SameStepUnlessBacklog ==
    IsVisit =>
        /\ (last.popped /\ last.element.src > last.cell)
               => last.element.at < last.at
        /\ \A x \in 1 .. Len(QueueOf(last.cell, last.chan)) :
              LET m == QueueOf(last.cell, last.chan)[x] IN
              (m.at = last.at /\ m.src < last.cell)
                  => /\ last.popped
                     /\ last.element.id # m.id

\* C1 witness: a visit pops a message sent earlier in the same step by an
\* earlier PE, and leaves behind another message sent in this step.
C1_Witness ==
    /\ IsVisit /\ last.popped
    /\ last.element.at = last.at /\ last.element.src < last.cell
    /\ \E x \in 1 .. Len(QueueOf(last.cell, last.chan)) :
          /\ QueueOf(last.cell, last.chan)[x].at = last.at
          /\ QueueOf(last.cell, last.chan)[x].src < last.cell

\* C1 (as stated): every message sent in this step by an earlier PE is
\* popped by the receiving PE's visit in this same step, and a message from
\* a later PE waits for the next step.
C1_Original ==
    IsVisit =>
        /\ (last.popped /\ last.element.src > last.cell)
               => last.element.at < last.at
        /\ \A x \in 1 .. Len(QueueOf(last.cell, last.chan)) :
              ~ (/\ QueueOf(last.cell, last.chan)[x].at = last.at
                 /\ QueueOf(last.cell, last.chan)[x].src < last.cell)

\* C2: on a channel with two or more handlers and an outbound route, a
\* visit (not aborted by its skip-route send) calls every handler once, in
\* registration order, with the popped message; each handler runs on the
\* memory the previous one left and the last one's memory is the PE's
\* memory; and the outbound send carries exactly the last handler's return
\* value: none is made when that is None, whatever earlier handlers
\* returned.
C2_LastHandlerWins ==
    (/\ IsVisit
     /\ Len(handlers[last.cell][last.chan]) >= 2
     /\ outbound_routes[last.cell][last.chan] # NOTHING
     /\ ~ SkipRaised)
    => LET hs == handlers[last.cell][last.chan]
           n == Len(hs)
       IN  /\ Len(last.calls) = n
           /\ \A k \in 1 .. n :
                 /\ last.calls[k].func = hs[k]
                 /\ last.calls[k].arg = last.element.val
                 /\ k > 1 => last.calls[k].mem =
                                Handler(hs[k], last.calls[k - 1].mem,
                                        last.element.val).mem
           /\ memory[last.cell] = last.calls[n].mem
           /\ IF last.calls[n].ret = None
              THEN OutboundSends = <<>>
              ELSE /\ Len(OutboundSends) = 1
                   /\ OutboundSends[1].val = last.calls[n].ret
                   /\ OutboundSends[1].dir = outbound_routes[last.cell][last.chan]

\* C2 witness: two handlers ran, the first returned a message, the last
\* returned None, and nothing was sent on the outbound route.
C2_Witness ==
    /\ IsVisit
    /\ outbound_routes[last.cell][last.chan] # NOTHING
    /\ Len(last.calls) = 2
    /\ last.calls[1].ret # None
    /\ last.calls[2].ret = None
    /\ last.calls[2].mem # last.calls[1].mem
    /\ OutboundSends = <<>>

\* C3 (as stated): in one visit of a channel a PE appends at most one
\* message to the queues of that channel.
C3_OneSendPerVisit ==
    IsVisit => Cardinality({x \in DOMAIN last.sends : last.sends[x].to \in PEs}) <= 1

\* C4: when a visit pops a message on a channel whose skip route is set (its
\* first field is not NOTHING) and whose forward direction points to a
\* neighbour inside the grid, the first send of the visit puts
\* that same message into that neighbour's queue of the same channel, and
\* every handler is still called with the message, whatever the handlers
\* return and whether or not an outbound route is set.
C4_SkipForward ==
    (/\ IsVisit /\ last.popped
     /\ skip_routes[last.cell][last.chan][1] # NOTHING
     /\ SendTarget(last.cell, skip_routes[last.cell][last.chan][2]) \in PEs)
    => LET to == SendTarget(last.cell, skip_routes[last.cell][last.chan][2]) IN
       /\ last.sends # <<>>
       /\ last.sends[1] = [kind |-> "skip",
                           dir |-> skip_routes[last.cell][last.chan][2],
                           val |-> last.element.val, id |-> last.element.id,
                           to |-> to]
       /\ \E x \in 1 .. Len(QueueOf(to, last.chan)) :
             QueueOf(to, last.chan)[x] =
                 [val |-> last.element.val, id |-> last.element.id,
                  src |-> last.cell, at |-> last.at]
       /\ Len(last.calls) = Len(handlers[last.cell][last.chan])
       /\ \A k \in 1 .. Len(last.calls) : last.calls[k].arg = last.element.val

\* C4 witness: a visit forwarded the popped message on the skip route and
\* also sent the handler's return value on the outbound route.
C4_Witness ==
    /\ IsVisit /\ last.popped
    /\ Len(last.sends) = 2
    /\ last.sends[1].kind = "skip" /\ last.sends[1].to \in PEs
    /\ last.sends[2].kind = "outbound"
    /\ last.calls # <<>>

\* C5: for every queue, the messages popped so far are, in order, the first
\* messages appended to it, and the queue holds exactly the rest, in the
\* order of appending: none is skipped, popped twice or overtaken.
C5_Fifo ==
    \A c \in PEs, q \in Chans :
        LET d == dequeued[c][q]
            ap == appended[c][q]
        IN  /\ Len(d) <= Len(ap)
            /\ SubSeq(ap, 1, Len(d)) = d
            /\ [x \in 1 .. Len(QueueOf(c, q)) |-> QueueOf(c, q)[x].id]
                   = SubSeq(ap, Len(d) + 1, Len(ap))

\* C5 witness: the second message of a queue is popped in a later step than
\* the one it was appended in, after the message appended before it.
C5_Witness ==
    /\ IsVisit /\ last.popped
    /\ last.element.at < last.at
    /\ Len(dequeued[last.cell][last.chan]) >= 2

\* The coordinates send looks up for a compass direction.
Neighbour(c, direction) ==
    CASE direction = NORTH -> <<pe_i(c) - 1, pe_j(c)>>
      [] direction = SOUTH -> <<pe_i(c) + 1, pe_j(c)>>
      [] direction = EAST -> <<pe_i(c), pe_j(c) + 1>>
      [] direction = WEST -> <<pe_i(c), pe_j(c) - 1>>

\* C6: a lookup succeeds exactly for coordinates inside the grid, and then
\* gives the PE that has these coordinates; outside it raises IndexError,
\* in the caller's route and register_handler calls and in a send across
\* an edge of the grid, which ends the run with the message in no queue.
C6_Bounds ==
    /\ \A i \in -1 .. rows, j \in -1 .. cols :
          IF InGrid(i, j)
          THEN /\ GetItem(i, j) \in PEs
               /\ pe_i(GetItem(i, j)) = i /\ pe_j(GetItem(i, j)) = j
          ELSE GetItem(i, j) = IndexError
    /\ last.op \in {"route", "register_handler"} =>
          /\ last.raised <=> ~ InGrid(last.coords[1], last.coords[2])
          /\ last.raised => pc = "raised" /\ err = IndexError
          /\ ~ last.raised => /\ pe_i(last.cell) = last.coords[1]
                              /\ pe_j(last.cell) = last.coords[2]
    /\ IsVisit =>
          \A x \in DOMAIN last.sends :
             LET snd == last.sends[x]
                 nb == Neighbour(last.cell, snd.dir)
             IN  snd.dir \in Compass =>
                   IF InGrid(nb[1], nb[2])
                   THEN /\ snd.to \in PEs
                        /\ pe_i(snd.to) = nb[1] /\ pe_j(snd.to) = nb[2]
                   ELSE /\ snd.to = IndexError
                        /\ x = Len(last.sends)
                        /\ last.raised /\ pc = "raised" /\ err = IndexError
                        /\ \A c \in PEs : \A y \in 1 .. Len(QueueOf(c, last.chan)) :
                              ~ (/\ QueueOf(c, last.chan)[y].id = snd.id
                                 /\ QueueOf(c, last.chan)[y].src = last.cell
                                 /\ QueueOf(c, last.chan)[y].at = last.at)

\* C6 witness: a send across an edge of the grid raised IndexError.
C6_Witness ==
    /\ IsVisit /\ last.raised /\ pc = "raised"
    /\ last.sends[Len(last.sends)].to = IndexError
    /\ last.sends[Len(last.sends)].dir \in Compass

\* C7 (as stated): send is never called with direction NOTHING.
C7_NeverSendNothing ==
    IsVisit => \A x \in DOMAIN last.sends : last.sends[x].dir # NOTHING

\* The route slot a call sets (simulator.py:213-218).
SlotKind(rcv, snd) ==
    IF snd = PROCESSOR THEN "inbound"
    ELSE IF rcv = PROCESSOR THEN "outbound" ELSE "skip"

\* C8: a route call that does not raise changes exactly one route slot of
\* its PE and channel: the inbound route (to rcv) when snd is PROCESSOR,
\* else the outbound route (to snd) when rcv is PROCESSOR, else the skip
\* route (to the pair); it replaces the old value, raises nothing, and
\* leaves the other two tables, every other PE and channel, and all queues,
\* handlers and memory as they were.
C8_RouteFrame ==
    [][ (last'.op = "route" /\ ~ last'.raised) =>
          LET k == last'.cell
              ch == last'.chan
              rcv == last'.args[1]
              snd == last'.args[2]
              kind == SlotKind(rcv, snd)
          IN  /\ inbound_routes' = IF kind = "inbound"
                                   THEN [inbound_routes EXCEPT ![k][ch] = rcv]
                                   ELSE inbound_routes
              /\ outbound_routes' = IF kind = "outbound"
                                    THEN [outbound_routes EXCEPT ![k][ch] = snd]
                                    ELSE outbound_routes
              /\ skip_routes' = IF kind = "skip"
                                THEN [skip_routes EXCEPT ![k][ch] = <<rcv, snd>>]
                                ELSE skip_routes
              /\ UNCHANGED <<conf, handlers, queues, memory, pc, err>> ]_vars

\* C8 witness: route(0, 0, 0, PROCESSOR, EAST) on the relay chain replaced
\* cell0's outbound route SOUTH; its inbound and skip routes are as before.
C8_Witness ==
    /\ last.op = "route" /\ ~ last.raised
    /\ last.cell = 0 /\ last.args = <<PROCESSOR, EAST>>
    /\ handlers[0][0] = <<"send_once">>
    /\ outbound_routes[0][0] = EAST
    /\ inbound_routes[0][0] = NOTHING
    /\ skip_routes[0][0] = <<NOTHING, NOTHING>>
    /\ outbound_routes[1][0] = SOUTH

IsRelay ==
    /\ ncalls = 0 /\ rows * cols = 3
    /\ handlers[0][0] = <<"send_once">>
    /\ handlers[1][0] = <<"get_and_send">>
    /\ handlers[2][0] = <<"keep">>

\* C10 (as amended): on a grid of three rows and one column, the relay
\* chain never raises, and after three time steps cell2's memory is 2.
C10_RelayColumn ==
    (IsRelay /\ rows = 3 /\ cols = 1) =>
        /\ pc # "raised" /\ err = None
        /\ (pc = "idle" /\ step = 3) => memory[2].val = 2

\* C10 witness: the relay chain on three rows after simulate(3).
C10_Witness ==
    /\ IsRelay /\ rows = 3 /\ cols = 1
    /\ pc = "idle" /\ step = 3 /\ last.op = "run_channels"
    /\ memory[2].val = 2

\* C10 (as stated): on a grid of one row and three columns, the relay chain
\* never raises, and after three time steps cell2's memory is 2.
C10_Original ==
    (IsRelay /\ rows = 1 /\ cols = 3) =>
        /\ pc # "raised" /\ err = None
        /\ (pc = "idle" /\ step = 3) => memory[2].val = 2

(***************************************************************************)
(* Properties of the runs of SpecRun.                                      *)
(***************************************************************************)
\* The program is examples/memory.py: every PE has the multiply handler.
IsMemory ==
    \A c \in PEs : handlers[c][0] # <<>> /\ handlers[c][0][1] = "multiply"

\* C11: a visit that does not end in the skip-route send calls every
\* handler registered on the channel once, in order, with None when the
\* queue was empty; between simulate calls every PE's channel has been
\* visited once per time step; so in memory.py every y[i] is
\* y[i] + a*x[i] from the PE's first visit on, and never updated again.
C11_HandlersOncePerStep ==
    /\ (IsVisit /\ ~ SkipRaised) =>
          /\ Len(last.calls) = Len(handlers[last.cell][last.chan])
          /\ \A k \in 1 .. Len(last.calls) :
                /\ last.calls[k].func = handlers[last.cell][last.chan][k]
                /\ ~ last.popped => last.calls[k].arg = None
    /\ pc = "idle" => \A c \in PEs : \A q \in Chans : visits[c][q] = step
    /\ pc = "simulate" => \A c \in PEs : \A q \in Chans : visits[c][q] \in {step - 1, step}
    /\ IsMemory =>
          \A c \in PEs :
             /\ memory[c].multiplied <=> visits[c][0] >= 1
             /\ memory[c].y = DefaultMemory(c).y
                              + (IF visits[c][0] >= 1 THEN a * DefaultMemory(c).x ELSE 0)

\* C11 witness: memory.py after two time steps, with no route set and all
\* queues empty: every y[i] has been updated once.
C11_Witness ==
    /\ IsMemory /\ pc = "idle" /\ step = 2 /\ ncalls = 0
    /\ IsVisit /\ ~ last.popped /\ last.calls # <<>> /\ last.calls[1].arg = None
    /\ \A c \in PEs : memory[c].y = DefaultMemory(c).y + a * DefaultMemory(c).x

\* What a caller can observe of S: every queue's messages, every memory,
\* and whether the run was ended by an exception.
Contents(S) ==
    [queues |-> [c \in PEs |-> [q \in Chans |->
                    [x \in 1 .. Len(S.queues[c][q]) |-> S.queues[c][q][x].val]]],
     memory |-> S.memory,
     raised |-> S.raised]

\* C12: a simulate call changes nothing by itself (so simulate(0) changes
\* nothing) and no step inside simulate changes a route or a handler list;
\* every step inside simulate(n) is the next iteration of the loops, so
\* the call ends in the state SimulateFn gives; and from
\* every state between calls, simulate(n1) followed by simulate(n2) gives
\* the same queues and memories as simulate(n1 + n2), for all n1 and n2
\* that the run still has time steps for.
C12_SimulateComposes ==
    /\ [][ /\ last'.op = "simulate" =>
                /\ SimState' = SimState
                /\ UNCHANGED <<routes, handlers>>
                /\ pc' = "idle" <=> time_steps' = 0
           /\ pc = "simulate" =>
                /\ UNCHANGED <<routes, handlers>>
                /\ SimState' = OneVisit(SimState, loop_i, loop_j, loop_p)
                /\ pc' # "raised" =>
                      <<time_steps', loop_i', loop_j', loop_p'>>
                        = Advance(time_steps, loop_i, loop_j, loop_p)
                /\ pc' = "idle" <=> (time_steps' = 0 /\ pc' # "raised") ]_vars
    /\ [](pc = "idle" =>
            /\ SimulateFn(SimState, 0) = SimState
            /\ \A n1 \in 0 .. (MaxSteps - step) : \A n2 \in 0 .. (MaxSteps - step - n1) :
                  Contents(SimulateFn(SimulateFn(SimState, n1), n2))
                    = Contents(SimulateFn(SimState, n1 + n2)))

\* C12 witness: between two simulate calls, after one time step, with a
\* message waiting in a queue, where one more time step changes a memory.
C12_Witness ==
    /\ pc = "idle" /\ step = 1
    /\ \E c \in PEs : QueueOf(c, 0) # <<>>
    /\ SimulateFn(SimState, 1).memory # memory
    /\ Contents(SimulateFn(SimState, 2)) # Contents(SimulateFn(SimState, 1))

\* A send of the last visit failed with a bounds error.
SendFailed == IsVisit /\ \E x \in DOMAIN last.sends : last.sends[x].to = IndexError

\* C13: a visit in which a send fails with a bounds error ends the run at
\* that point: the loops stay at that PE and channel, every PE and channel
\* before it (row-major) has been visited in this time step and none after
\* it, and no step follows; and the failing visit leaves in place every
\* other PE's memory and every message that was in a queue, except the one
\* it popped.
C13_AbortOnSendError ==
    /\ [](SendFailed =>
            /\ last.raised /\ pc = "raised" /\ err = IndexError
            /\ <<loop_i, loop_j, loop_p>> = <<last.coords[1], last.coords[2], last.chan>>
            /\ \A c \in PEs : \A q \in Chans :
                  visits[c][q] = IF c < last.cell \/ (c = last.cell /\ q <= last.chan)
                                 THEN step ELSE step - 1)
    /\ [][ /\ pc # "raised"
           /\ (pc = "simulate" /\ pc' = "raised") =>
                 LET self == GetItem(loop_i, loop_j) IN
                 /\ \A c \in PEs \ {self} : memory'[c] = memory[c]
                 /\ \A c \in PEs : \A q \in Chans :
                       LET kept == IF c = self /\ q = loop_p /\ queues[c][q] # <<>>
                                   THEN Tail(queues[c][q]) ELSE queues[c][q]
                       IN  /\ Len(queues'[c][q]) >= Len(kept)
                           /\ SubSeq(queues'[c][q], 1, Len(kept)) = kept ]_vars

\* C13 witness: in the second time step a send of the second PE failed,
\* after the first PE had been visited in that step and had changed its
\* memory in the first step and sent a message in this one.
C13_Witness ==
    /\ SendFailed /\ last.cell = 1 /\ step = 2
    /\ memory[0].val = InstigateValue
    /\ visits[0][0] = 2
    /\ last.popped /\ last.element.src = 0 /\ last.element.at = 2

\* C14: a simulate(n) call starts n time steps and, unless a send raises,
\* runs them all and then returns: every step inside the call visits
\* exactly the PE and channel the loops are at, whatever the queues hold;
\* the number of time steps begun plus those still to run stays the same
\* until the last one ends; so between calls every PE's channel has been
\* visited once per time step asked for; and the call always comes to an
\* end.
C14_SimulateRunsNSteps ==
    /\ [](last.op = "simulate" =>
            /\ last.args[1] = 0 => pc = "idle"
            /\ last.args[1] > 0 =>
                  /\ pc = "simulate" /\ time_steps = last.args[1]
                  /\ <<loop_i, loop_j, loop_p>> = <<0, 0, 0>>)
    /\ [](pc = "simulate" => time_steps \in 1 .. MaxSteps)
    /\ [](pc = "idle" => \A c \in PEs : \A q \in Chans : visits[c][q] = step)
    /\ [][ /\ (pc = "idle" /\ pc' = "simulate") => step' = step + 1
           /\ pc = "simulate" =>
                 /\ visits' = [visits EXCEPT ![GetItem(loop_i, loop_j)][loop_p] = @ + 1]
                 /\ pc' = "simulate" => step' + time_steps' = step + time_steps
                 /\ pc' = "idle" => time_steps = 1 /\ step' = step
                 /\ pc' = "raised" => last'.raised ]_vars
    /\ (pc = "simulate") ~> (pc # "simulate")

\* C14 witness: simulate(3) has returned after three time steps although a
\* message is still going round the two skip routes: it has been popped
\* by both PEs more than once and is waiting in a queue.
C14_Witness ==
    /\ pc = "idle" /\ step = 3 /\ ncalls = 0 /\ time_steps = 0
    /\ channels = 2
    /\ QueueOf(0, 0) # <<>> /\ QueueOf(0, 0)[1].id = 1
    /\ Len(dequeued[0][0]) >= 2 /\ Len(dequeued[1][0]) >= 2
    /\ \A c \in PEs : \A q \in Chans : visits[c][q] = 3

\* A second grid built with the configuration of S: the same memories and
\* the same messages in the same queues, and nothing of the history of the
\* first (which PE sent a message and when, the logs, the counters).  The
\* dimensions, routes and handlers are those of the state.
Rebuilt(S) ==
    [queues |-> [c \in PEs |-> [q \in Chans |->
                    [x \in 1 .. Len(S.queues[c][q]) |->
                        [val |-> S.queues[c][q][x].val, id |-> 0, src |-> NoPE,
                         at |-> 0]]]],
     appended |-> [c \in PEs |-> [q \in Chans |-> <<>>]],
     memory |-> S.memory,
     nmsg |-> 0,
     raised |-> S.raised]

C16_VisitOrder ==
    /\ [](\A c \in PEs : \A q \in Chans :
             q + 1 \in Chans =>
                 /\ visits[c][q + 1] <= visits[c][q]
                 /\ visits[c][q] <= visits[c][q + 1] + 1)
    /\ [][ (pc = "simulate" /\ pc' # "raised" /\ loop_p + 1 < channels) =>
               <<loop_i', loop_j', loop_p'>> = <<loop_i, loop_j, loop_p + 1>> ]_vars
    /\ [](IsVisit =>
            /\ Len(last.sends) <= 2
            /\ \A x \in DOMAIN last.sends :
                  last.sends[x].kind = IF x = 1 /\ last.popped
                                             /\ skip_routes[last.cell][last.chan][1] # NOTHING
                                       THEN "skip" ELSE "outbound"
            /\ (Len(last.sends) = 2 /\ last.sends[1].to = last.sends[2].to
                  /\ last.sends[1].to \in PEs) =>
                  LET qu == QueueOf(last.sends[1].to, last.chan) IN
                  /\ Len(qu) >= 2
                  /\ qu[Len(qu) - 1].id = last.element.id
                  /\ qu[Len(qu)].id = last.sends[2].id
                  /\ qu[Len(qu)].val = last.calls[Len(last.calls)].ret
            /\ (last.raised /\ last.sends[Len(last.sends)].kind = "skip") =>
                  last.calls = <<>>
            /\ (last.raised /\ last.sends[Len(last.sends)].kind = "outbound") =>
                  Len(last.calls) = Len(handlers[last.cell][last.chan]))

\* C16 witness: a visit of channel 0 on the grid with two channels that
\* forwarded the popped message on the skip route and then sent the
\* handler's message to the same PE.
C16_Witness ==
    /\ IsVisit /\ channels = 2 /\ last.chan = 0
    /\ Len(last.sends) = 2
    /\ last.sends[1].kind = "skip" /\ last.sends[2].kind = "outbound"
    /\ last.sends[1].to = last.sends[2].to /\ last.sends[1].to \in PEs
    /\ loop_p = 1

\* The PE c is a grid neighbour of self, or self for PROCESSOR.
SendsTo(self, direction, c) ==
    CASE direction = NORTH -> pe_i(c) = pe_i(self) - 1 /\ pe_j(c) = pe_j(self)
      [] direction = SOUTH -> pe_i(c) = pe_i(self) + 1 /\ pe_j(c) = pe_j(self)
      [] direction = EAST -> pe_i(c) = pe_i(self) /\ pe_j(c) = pe_j(self) + 1
      [] direction = WEST -> pe_i(c) = pe_i(self) /\ pe_j(c) = pe_j(self) - 1
      [] direction = PROCESSOR -> c = self
      [] OTHER -> FALSE

C18_NoProcessorSend ==
    /\ \A c \in PEs : \A q \in Chans :
          /\ outbound_routes[c][q] # PROCESSOR
          /\ skip_routes[c][q][1] # PROCESSOR
          /\ skip_routes[c][q][2] # PROCESSOR
    /\ IsVisit => \A x \in DOMAIN last.sends : last.sends[x].dir # PROCESSOR
    /\ \A c \in PEs : \A q \in Chans : \A x \in 1 .. Len(QueueOf(c, q)) :
          LET src == QueueOf(c, q)[x].src IN
          /\ src \in PEs /\ src # c
          /\ \E direction \in Compass : SendsTo(src, direction, c)

\* C18 witness: after a route call with PROCESSOR as receive and as send
\* direction, which set the PE's inbound route to PROCESSOR, the PE was
\* visited, popped a message and sent one to a neighbour.
C18_Witness ==
    /\ IsVisit /\ last.popped /\ last.sends # <<>>
    /\ inbound_routes[last.cell][last.chan] = PROCESSOR
    /\ last.sends[1].to \in PEs
    /\ QueueOf(last.sends[1].to, last.chan) # <<>>

\* C19: a route call that sets an inbound route changes the outcome of no
\* visit: for every PE and channel the visit pops, calls and sends the
\* same before and after the call; and every visit of a PE whose queue
\* holds a message pops the oldest one and passes it to every handler,
\* whatever the inbound route is and whichever PE sent the message.
C19_InboundUnused ==
    [][ /\ (last'.op = "route" /\ ~ last'.raised /\ last'.args[2] = PROCESSOR) =>
              \A self \in PEs : \A chan \in Chans :
                  VisitOn(SimState, self, chan)' = VisitOn(SimState, self, chan)
        /\ pc = "simulate" =>
              LET self == GetItem(loop_i, loop_j) IN
              /\ last'.popped <=> queues[self][loop_p] # <<>>
              /\ last'.popped =>
                    /\ last'.element = Head(queues[self][loop_p])
                    /\ (last'.raised /\ last'.calls = <<>>)
                         \/ /\ Len(last'.calls) = Len(handlers[self][loop_p])
                            /\ \A k \in DOMAIN last'.calls :
                                  last'.calls[k].arg = Head(queues[self][loop_p]).val ]_vars

\* C19 witness: a PE whose inbound route is NOTHING popped a message that
\* its neighbour had sent and passed it to its handler.
C19_Witness ==
    /\ IsVisit /\ last.popped /\ ~ last.raised
    /\ inbound_routes[last.cell][last.chan] = NOTHING
    /\ last.element.src \in PEs
    /\ last.calls # <<>> /\ last.calls[1].arg = last.element.val

\* The visit ended in the outbound send, after the handlers had run.
OutboundRaised ==
    last.raised /\ last.sends # <<>> /\ last.sends[Len(last.sends)].kind = "outbound"

\* C20: when the skip-route send of a visit raises, the popped message is
\* gone: it is in no queue, no handler was called with it, and the PE's
\* later channels were not visited in this time step; when the outbound
\* send raises, every handler of the channel has been called and the
\* memory the last one left is the PE's memory.
C20_LostOnSkipFailure ==
    /\ SkipRaised =>
          /\ pc = "raised" /\ last.popped
          /\ dequeued[last.cell][last.chan] # <<>>
          /\ dequeued[last.cell][last.chan][Len(dequeued[last.cell][last.chan])]
               = last.element.id
          /\ \A c \in PEs : \A q \in Chans : \A x \in 1 .. Len(QueueOf(c, q)) :
                QueueOf(c, q)[x].id # last.element.id
          /\ last.calls = <<>>
          /\ \A q \in Chans : q > last.chan => visits[last.cell][q] = step - 1
    /\ OutboundRaised =>
          /\ pc = "raised"
          /\ Len(last.calls) = Len(handlers[last.cell][last.chan])
          /\ last.calls # <<>>
          /\ memory[last.cell] = last.calls[Len(last.calls)].mem

\* C20 witness: on the grid with two channels the skip-route send of a
\* visit of channel 0 raised; the PE has a handler on that channel, which
\* was not called, and its channel 1 was not visited in this time step.
C20_Witness ==
    /\ SkipRaised /\ channels = 2 /\ last.chan = 0
    /\ handlers[last.cell][0] # <<>> /\ last.calls = <<>>
    /\ last.element.val = InstigateValue
    /\ visits[last.cell][1] = step - 1 /\ visits[last.cell][0] = step

=============================================================================
